---- MODULE Spec2Model ----
(***************************************************************************)
(* A model of the event-management API (Django REST framework views over   *)
(* two tables, Event and EventRegistration).                               *)
(*                                                                         *)
(* Every request is served by a worker process p.  A handler is cut into   *)
(* atomic steps at its database statements: one step is one statement      *)
(* together with the Python code that runs up to the next statement, so    *)
(* that two requests may interleave exactly where two workers sharing one  *)
(* database can.  The database itself is the only shared state.            *)
(***************************************************************************)
EXTENDS Integers, Sequences, FiniteSets, TLC

\* ------------------------------------------------------------------ bounds
NumUsers == 3       \* users known to the credential store: 1..NumUsers
MaxEvents == 2      \* event ids handed out by the AUTOINCREMENT key
MaxClock == 1       \* the wall clock runs 0..MaxClock
MaxRequests == 3    \* requests the concurrent workers take in one run
MaxSeqRequests == 4 \* requests the sequential worker takes in one run
MaxRegRequests == 5 \* requests taken in one run of RegSpec
MaxRosterRequests == 6 \* requests taken in one run of RosterSpec
MaxLifeRequests == 5 \* requests taken in one run of LifeSpec
TicksPerDay == 2    \* resolution of a date-time inside one day
NumDays == 3        \* days the list-events specification draws dates from

Procs == {1, 2}
Anon == 0                         \* request.user of a request without a token
Users == 1..NumUsers
Callers == Users \cup {Anon}
Ids == 1..MaxEvents

\* A user's username (unique, compared case-sensitively by an exact lookup).
Username(u) == IF u = 1 THEN <<"a">> ELSE IF u = 2 THEN <<"A">> ELSE <<"b", u>>

\* ----------------------------------------------------------------- state
VARIABLES
    events,     \* table Event: id -> [title, date, location, organizer]
    nextId,     \* next value of Event's AUTOINCREMENT primary key
    regs,       \* table EventRegistration, in insertion order:
                \* <<[event, user, registered_at], ...>>
    clock,      \* wall clock read by auto_now_add
    req,        \* per worker: the request it serves and where it stands
    served,     \* requests taken so far
    creator     \* history: id -> request.user of the request that created it

vars == <<events, nextId, regs, clock, req, served, creator>>

\* ------------------------------------------------------- request records
NoBody == <<>>
Idle == [op |-> "none", caller |-> Anon, pk |-> 0, pc |-> "idle",
         inst |-> <<>>, data |-> <<>>, t0 |-> 0,
         status |-> 0, detail |-> "", body |-> NoBody,
         before |-> <<>>, sends |-> 0, sendFailed |-> FALSE]

\* A worker takes a new request when it serves none.
Free(p) == req[p].pc \in {"idle", "done"}

\* The request p starts serving: op, caller, pk; for a register request, the
\* registrations as they were on its arrival.
Arrive(p, o, u, k) ==
    [Idle EXCEPT !.op = o, !.caller = u, !.pk = k,
                 !.before = IF o = "register" THEN regs ELSE <<>>]

\* rest_framework.response.Response: the request is answered.
Respond(r, s, d) == [r EXCEPT !.pc = "done", !.status = s, !.detail = d, !.t0 = 0]

\* A request rejected for want of credentials: 401 when the first
\* authenticator states a WWW-Authenticate header (token authentication),
\* 403 otherwise; the project's settings decide and are not part of src/.
UnauthStatus == {401, 403}

\* ----------------------------------------------------------- the tables
Exists(k) == k \in DOMAIN events

Put(evs, k, row) ==
    [i \in DOMAIN evs \cup {k} |-> IF i = k THEN row ELSE evs[i]]

Remove(evs, k) == [i \in DOMAIN evs \ {k} |-> evs[i]]

\* EventRegistration.objects.filter(event=e, user=u).exists()
Registered(rs, e, u) ==
    \E i \in 1..Len(rs) : rs[i].event = e /\ rs[i].user = u

\* Mutant: the unique_together constraint is not declared.
UniqueTogetherOff(rs, e, u) == TRUE

\* Meta.unique_together = ('event', 'user'): whether the table accepts a row.
UniqueTogether(rs, e, u) == ~Registered(rs, e, u)

\* EventRegistration.event is a ForeignKey: the referenced row must exist.
ForeignKey(evs, e) == e \in DOMAIN evs

\* Mutant: deleting an event leaves its registrations behind.
CascadeOff(rs, k) == rs

\* Mutant: deleting an event empties the table.
CascadeAll(rs, k) == << >>

\* on_delete=models.CASCADE: the registrations that survive deleting event k.
Cascade(rs, k) == SelectSeq(rs, LAMBDA r : r.event # k)

\* ------------------------------------------------------------ permissions
SAFE_METHODS == {"GET", "HEAD", "OPTIONS"}

\* Mutant: every caller may write.
IsOrganizerOrReadOnlyOpen(method, obj, user) == TRUE

\* Mutant: the object permission lets every caller delete.
IsOrganizerOrReadOnlyPutOnly(method, obj, user) ==
    IF method \in SAFE_METHODS \cup {"DELETE"} THEN TRUE ELSE obj.organizer = user

\* IsOrganizerOrReadOnly.has_object_permission
IsOrganizerOrReadOnly(method, obj, user) ==
    IF method \in SAFE_METHODS THEN TRUE ELSE obj.organizer = user

\* permissions.IsAuthenticated
IsAuthenticated(user) == user # Anon

\* Mutant: the list-and-create view admits every caller.
IsAuthenticatedOrReadOnlyOpen(method, user) == TRUE

\* permissions.IsAuthenticatedOrReadOnly
IsAuthenticatedOrReadOnly(method, user) ==
    method \in SAFE_METHODS \/ user # Anon

\* ------------------------------------------------------------------ Init
Init ==
    /\ events = << >>
    /\ nextId = 1
    /\ regs = << >>
    /\ clock = 0
    /\ req = [p \in Procs |-> Idle]
    /\ served = 0
    /\ creator = << >>

\* --------------------------------------------- EventRegistrationView.post
\* Mutant: the organizer check is missing.
OwnEventOff(ev, user) == FALSE

\* views.py 116: event.organizer == request.user
OwnEvent(ev, user) == ev.organizer = user

\* Lines 106-120: permission, Event.objects.get(pk=pk), the organizer check.
RegisterGetEvent(p, u, k) ==
    /\ Free(p)
    /\ served' = served + 1
    /\ LET r == Arrive(p, "register", u, k) IN
       \/ /\ ~IsAuthenticated(u)
          /\ \E s \in UnauthStatus :
                req' = [req EXCEPT ![p] = Respond(r, s, "not authenticated")]
       \/ /\ IsAuthenticated(u)
          /\ req' = [req EXCEPT ![p] =
                IF ~Exists(k)
                THEN Respond(r, 404, "Event not found")
                ELSE IF OwnEvent(events[k], u)
                THEN Respond([r EXCEPT !.inst = <<events[k]>>], 400,
                             "You cannot register for your own event.")
                ELSE [r EXCEPT !.inst = <<events[k]>>, !.pc = "reg_exists"]]
    /\ UNCHANGED <<events, nextId, regs, clock, creator>>

\* Lines 122-127: the existence check.  Passing it, the worker goes on to
\* create(); auto_now_add reads the clock no earlier than now.
RegisterExists(p) ==
    /\ req[p].pc = "reg_exists"
    /\ UNCHANGED served
    /\ req' = [req EXCEPT ![p] =
          IF Registered(regs, req[p].pk, req[p].caller)
          THEN Respond(req[p], 400, "You are already registered for this event.")
          ELSE [req[p] EXCEPT !.pc = "reg_create", !.t0 = clock]]
    /\ UNCHANGED <<events, nextId, regs, clock, creator>>

\* Line 130: EventRegistration.objects.create(event=event, user=request.user).
\* registered_at was read between the existence check and the INSERT.  A row
\* the database refuses raises IntegrityError, which nothing catches: the
\* framework answers 500.
RegisterCreate(p) ==
    /\ req[p].pc = "reg_create"
    /\ UNCHANGED served
    /\ LET e == req[p].pk
           u == req[p].caller IN
       IF ForeignKey(events, e) /\ UniqueTogether(regs, e, u)
       THEN /\ \E t \in req[p].t0..clock :
                  regs' = Append(regs, [event |-> e, user |-> u,
                                        registered_at |-> t])
            /\ req' = [req EXCEPT ![p].pc = "reg_mail"]
       ELSE /\ regs' = regs
            /\ req' = [req EXCEPT ![p] = Respond(req[p], 500, "IntegrityError")]
    /\ UNCHANGED <<events, nextId, clock, creator>>

\* Lines 131-134 and send_registration_email: send_mail(fail_silently=False)
\* either delivers or raises; the exception is not caught either.
RegisterSendMail(p) ==
    /\ req[p].pc = "reg_mail"
    /\ UNCHANGED served
    /\ \/ /\ req' = [req EXCEPT ![p] =
                Respond([req[p] EXCEPT !.sends = @ + 1], 201,
                        "Registration successful.")]
       \/ /\ req' = [req EXCEPT ![p] =
                Respond([req[p] EXCEPT !.sends = @ + 1, !.sendFailed = TRUE],
                        500, "SMTPException")]
    /\ UNCHANGED <<events, nextId, regs, clock, creator>>

\* ------------------------------------------------------- EventSerializer
\* What a client sends with a create or an update: the writable fields, an
\* organizer value it may add (0: none), and whether the payload passes
\* validation (required fields present, the date well-formed).
Payload(t, d, l, o, v) ==
    [title |-> t, date |-> d, location |-> l, organizer |-> o, valid |-> v]

\* Mutant: organizer is a writable field of the serializer.
ValidatedDataWritable(d) ==
    [title |-> d.title, date |-> d.date, location |-> d.location,
     organizer |-> d.organizer]

\* serializer.validated_data: organizer is a ReadOnlyField, so whatever the
\* client sent for it is dropped (organizer 0: the key is absent).
ValidatedData(d) ==
    [title |-> d.title, date |-> d.date, location |-> d.location,
     organizer |-> 0]

\* ModelSerializer.update: every key of validated_data is set on the instance.
SaveUpdate(inst, vd) ==
    [title |-> vd.title, date |-> vd.date, location |-> vd.location,
     organizer |-> IF vd.organizer # 0 THEN vd.organizer ELSE inst.organizer]

\* EventSerializer(...).data: organizer is rendered as the username.
EventData(k, ev) ==
    [id |-> k, title |-> ev.title, date |-> ev.date, location |-> ev.location,
     organizer |-> Username(ev.organizer)]

\* EventListCreateView.perform_create: serializer.save(organizer=request.user);
\* the keyword argument overrides validated_data.
PerformCreate(vd, user, d) ==
    [title |-> vd.title, date |-> vd.date, location |-> vd.location,
     organizer |-> user]

\* ------------------------------------------ EventListCreateView (POST)
\* One step: permission, validation, INSERT.  Ids are never reused.
CreateEvent(p, u, d) ==
    /\ Free(p)
    /\ served' = served + 1
    /\ LET r == [Arrive(p, "create", u, 0) EXCEPT !.data = <<d>>] IN
       \/ /\ ~IsAuthenticatedOrReadOnly("POST", u)
          /\ \E s \in UnauthStatus :
                req' = [req EXCEPT ![p] = Respond(r, s, "not authenticated")]
          /\ UNCHANGED <<events, nextId, creator>>
       \/ /\ IsAuthenticatedOrReadOnly("POST", u)
          /\ ~d.valid
          /\ req' = [req EXCEPT ![p] = Respond(r, 400, "invalid")]
          /\ UNCHANGED <<events, nextId, creator>>
       \/ /\ IsAuthenticatedOrReadOnly("POST", u)
          /\ d.valid
          /\ nextId <= MaxEvents
          /\ events' = Put(events, nextId, PerformCreate(ValidatedData(d), u, d))
          /\ nextId' = nextId + 1
          /\ creator' = Put(creator, nextId, u)
          /\ req' = [req EXCEPT ![p] =
                Respond([r EXCEPT !.pk = nextId,
                                  !.body = <<EventData(nextId, events'[nextId])>>],
                        201, "created")]
    /\ UNCHANGED <<regs, clock>>

\* ---------------------------------------------------- EventDetailView
\* GenericAPIView.get_object for a request r: the row, then the object
\* permission.  The answer of a caller the permission turns away.
Denied(r, u, s) ==
    IF u = Anon THEN Respond(r, s, "not authenticated")
    ELSE Respond(r, 403, "You do not have permission to perform this action.")

\* GET: retrieve.
RetrieveEvent(p, u, k) ==
    /\ Free(p)
    /\ served' = served + 1
    /\ LET r == Arrive(p, "retrieve", u, k) IN
       \E s \in UnauthStatus :
          req' = [req EXCEPT ![p] =
             IF ~Exists(k) THEN Respond(r, 404, "Not found.")
             ELSE IF ~IsOrganizerOrReadOnly("GET", events[k], u)
             THEN Denied(r, u, s)
             ELSE Respond([r EXCEPT !.inst = <<events[k]>>,
                                    !.body = <<EventData(k, events[k])>>],
                          200, "ok")]
    /\ UNCHANGED <<events, nextId, regs, clock, creator>>

\* PUT, first statement: get_object, then serializer.is_valid.
UpdateGetObject(p, u, k, d) ==
    /\ Free(p)
    /\ served' = served + 1
    /\ LET r == [Arrive(p, "update", u, k) EXCEPT !.data = <<d>>] IN
       \E s \in UnauthStatus :
          req' = [req EXCEPT ![p] =
             IF ~Exists(k) THEN Respond(r, 404, "Not found.")
             ELSE IF ~IsOrganizerOrReadOnly("PUT", events[k], u)
             THEN Denied([r EXCEPT !.inst = <<events[k]>>], u, s)
             ELSE IF ~d.valid
             THEN Respond([r EXCEPT !.inst = <<events[k]>>], 400, "invalid")
             ELSE [r EXCEPT !.inst = <<events[k]>>, !.pc = "upd_check"]]
    /\ UNCHANGED <<events, nextId, regs, clock, creator>>

\* perform_update, lines 73-75: get_object once more, then the handler's own
\* organizer check.
UpdateCheck(p) ==
    /\ req[p].pc = "upd_check"
    /\ UNCHANGED served
    /\ LET r == req[p]
           k == r.pk IN
       \E s \in UnauthStatus :
          req' = [req EXCEPT ![p] =
             IF ~Exists(k) THEN Respond(r, 404, "Not found.")
             ELSE IF ~IsOrganizerOrReadOnly("PUT", events[k], r.caller)
             THEN Denied(r, r.caller, s)
             ELSE IF events[k].organizer # r.caller
             THEN Respond(r, 403, "You are not allowed to update this event.")
             ELSE [r EXCEPT !.pc = "upd_save"]]
    /\ UNCHANGED <<events, nextId, regs, clock, creator>>

\* perform_update, line 76: serializer.save() writes the instance read by the
\* first get_object, with the validated fields set on it.  Model.save() is an
\* UPDATE of the whole row by primary key and, when no row is left to update,
\* an INSERT of it.
UpdateSave(p) ==
    /\ req[p].pc = "upd_save"
    /\ UNCHANGED served
    /\ LET r == req[p]
           row == SaveUpdate(r.inst[1], ValidatedData(r.data[1])) IN
       /\ events' = Put(events, r.pk, row)
       /\ req' = [req EXCEPT ![p] =
             Respond([r EXCEPT !.body = <<EventData(r.pk, row)>>], 200, "ok")]
    /\ UNCHANGED <<nextId, regs, clock, creator>>

\* DELETE, first statement: get_object.
DeleteGetObject(p, u, k) ==
    /\ Free(p)
    /\ served' = served + 1
    /\ LET r == Arrive(p, "delete", u, k) IN
       \E s \in UnauthStatus :
          req' = [req EXCEPT ![p] =
             IF ~Exists(k) THEN Respond(r, 404, "Not found.")
             ELSE IF ~IsOrganizerOrReadOnly("DELETE", events[k], u)
             THEN Denied([r EXCEPT !.inst = <<events[k]>>], u, s)
             ELSE [r EXCEPT !.inst = <<events[k]>>, !.pc = "del_destroy"]]
    /\ UNCHANGED <<events, nextId, regs, clock, creator>>

\* perform_destroy: the handler's organizer check on the instance, then
\* instance.delete(), one transaction that deletes the registrations of the
\* event and the event.
PerformDestroy(p) ==
    /\ req[p].pc = "del_destroy"
    /\ UNCHANGED served
    /\ LET r == req[p] IN
       IF r.inst[1].organizer # r.caller
       THEN /\ req' = [req EXCEPT ![p] =
                  Respond(r, 403, "You are not allowed to delete this event.")]
            /\ UNCHANGED <<events, regs>>
       ELSE /\ regs' = Cascade(regs, r.pk)
            /\ events' = Remove(events, r.pk)
            /\ req' = [req EXCEPT ![p] = Respond(r, 204, "deleted")]
    /\ UNCHANGED <<nextId, clock, creator>>

\* ------------------------------------------------- RegisteredUsersView.get
\* EventRegistrationSerializer(...).data of one row.
RegistrationData(r) ==
    [event |-> events[r.event].title, user |-> Username(r.user),
     registered_at |-> r.registered_at]

\* Mutant: the queryset is not narrowed to the event.
RegistrationsOfAll(rs, k) == rs

\* Line 174: EventRegistration.objects.filter(event=event).  Neither the
\* queryset nor the model's Meta states an ordering: the rows come as the
\* table holds them, which is the order of insertion.
RegistrationsOf(rs, k) == SelectSeq(rs, LAMBDA r : r.event = k)

\* The whole handler: permission, the event, the organizer check, the rows.
\* It only reads, and is taken as one step.
RegisteredUsers(p, u, k) ==
    /\ Free(p)
    /\ served' = served + 1
    /\ LET r == Arrive(p, "registrations", u, k) IN
       \/ /\ ~IsAuthenticated(u)
          /\ \E s \in UnauthStatus :
                req' = [req EXCEPT ![p] = Respond(r, s, "not authenticated")]
       \/ /\ IsAuthenticated(u)
          /\ req' = [req EXCEPT ![p] =
                IF ~Exists(k)
                THEN Respond(r, 404, "Event not found")
                ELSE IF events[k].organizer # u
                THEN Respond([r EXCEPT !.inst = <<events[k]>>], 403,
                  "You are not authorized to view registrations for this event.")
                ELSE LET rows == RegistrationsOf(regs, k) IN
                     Respond([r EXCEPT !.inst = <<events[k]>>,
                        !.body = [i \in 1..Len(rows) |-> RegistrationData(rows[i])]],
                        200, "ok")]
    /\ UNCHANGED <<events, nextId, regs, clock, creator>>

\* ------------------------------------------------------------ the clock
Tick ==
    /\ clock < MaxClock
    /\ clock' = clock + 1
    /\ UNCHANGED <<events, nextId, regs, req, served, creator>>

\* ------------------------------------------------------------ EventFilter
\* A date-time is a day and a time of day: day * TicksPerDay + tick.
DateTime(day, tick) == day * TicksPerDay + tick
DayOf(dt) == dt \div TicksPerDay

\* A DateFilter value compared with a DateTimeField: the date is turned into
\* the date-time of its midnight.
DateToDateTime(day) == DateTime(day, 0)

Lower(c) == IF c = "A" THEN "a" ELSE IF c = "B" THEN "b" ELSE c
LowerStr(s) == [i \in 1..Len(s) |-> Lower(s[i])]

\* lookup "contains": needle is a run of consecutive characters of hay.
Contains(hay, needle) ==
    \E i \in 0..(Len(hay) - Len(needle)) :
        \A j \in 1..Len(needle) : hay[i + j] = needle[j]

\* lookup "icontains"
IContains(hay, needle) == Contains(LowerStr(hay), LowerStr(needle))

\* The query parameters of list-events; a filter left empty is not applied:
\* search, location_contains, organizer <<>>; date_from, date_to 0.
Query(s, df, dt, l, o) ==
    [search |-> s, date_from |-> df, date_to |-> dt,
     location_contains |-> l, organizer |-> o]

\* date_from: DateFilter(field_name="date", lookup_expr="gte")
DateFromFilter(ev, q) ==
    q.date_from = 0 \/ ev.date >= DateToDateTime(q.date_from)

\* date_to: DateFilter(field_name="date", lookup_expr="lte")
DateToFilter(ev, q) ==
    q.date_to = 0 \/ ev.date <= DateToDateTime(q.date_to)

\* location_contains: CharFilter(field_name="location", lookup_expr="icontains")
LocationFilter(ev, q) ==
    q.location_contains = <<>> \/ IContains(ev.location, q.location_contains)

\* organizer: CharFilter(field_name="organizer__username", lookup_expr="exact")
OrganizerFilter(ev, q) ==
    q.organizer = <<>> \/ Username(ev.organizer) = q.organizer

\* filters.SearchFilter with search_fields = ['title']
SearchFilter(ev, q) ==
    q.search = <<>> \/ IContains(ev.title, q.search)

\* filter_backends = [DjangoFilterBackend, SearchFilter]: each narrows the
\* queryset the one before it left.
FilterQueryset(ev, q) ==
    /\ DateFromFilter(ev, q)
    /\ DateToFilter(ev, q)
    /\ LocationFilter(ev, q)
    /\ OrganizerFilter(ev, q)
    /\ SearchFilter(ev, q)

\* EventListCreateView (GET): the ids of the events listed, by primary key.
ListEvents(p, u, q) ==
    /\ Free(p)
    /\ served' = served + 1
    /\ LET r == [Arrive(p, "list", u, 0) EXCEPT !.data = <<q>>]
           all == [i \in 1..(nextId - 1) |-> i]
           ids == SelectSeq(all, LAMBDA k : Exists(k) /\ FilterQueryset(events[k], q))
       IN  /\ IsAuthenticatedOrReadOnly("GET", u)
           /\ req' = [req EXCEPT ![p] =
                 Respond([r EXCEPT !.body =
                            [i \in 1..Len(ids) |-> EventData(ids[i], events[ids[i]])]],
                         200, "ok")]
    /\ UNCHANGED <<events, nextId, regs, clock, creator>>

\* ------------------------------------------------------ inputs and Next
\* Payloads of the requests of Spec: two well-formed ones that differ in every
\* field, one of them with an organizer value, and a malformed one.
Payloads ==
    {Payload(<<"A", "b">>, DateTime(1, 0), <<"a">>, 0, TRUE),
     Payload(<<"b">>, DateTime(2, 1), <<"B">>, 2, TRUE),
     Payload(<<"b">>, DateTime(2, 1), <<"B">>, 0, FALSE)}

RegPayload == Payload(<<"A", "b">>, DateTime(1, 0), <<"a">>, 0, TRUE)

\* Who sends the requests of Spec and SeqSpec: nobody authenticated, a user
\* who organizes, a user who attends.
Senders == {Anon, 1, 2}

\* Worker p takes a request.
Begin(p) ==
    \/ \E u \in Senders, d \in Payloads : CreateEvent(p, u, d)
    \/ \E u \in Senders, k \in Ids : RetrieveEvent(p, u, k)
    \/ \E u \in Senders, k \in Ids, d \in Payloads : UpdateGetObject(p, u, k, d)
    \/ \E u \in Senders, k \in Ids : DeleteGetObject(p, u, k)
    \/ \E u \in Senders, k \in Ids : RegisterGetEvent(p, u, k)
    \/ \E u \in Senders, k \in Ids : RegisteredUsers(p, u, k)

\* Worker p carries the request it serves one statement further.
Continue(p) ==
    \/ UpdateCheck(p)
    \/ UpdateSave(p)
    \/ PerformDestroy(p)
    \/ RegisterExists(p)
    \/ RegisterCreate(p)
    \/ RegisterSendMail(p)

\* Requests served concurrently by the workers, MaxRequests of them.
Next ==
    \/ \E p \in Procs : served < MaxRequests /\ Begin(p)
    \/ \E p \in Procs : Continue(p)

Spec == Init /\ [][Next]_vars

\* Requests served one after the other by one worker, MaxSeqRequests of them.
SeqNext ==
    \/ served < MaxSeqRequests /\ Begin(1)
    \/ Continue(1)
    \/ Tick

SeqSpec == Init /\ [][SeqNext]_vars

\* The requests that create and remove registrations, served concurrently,
\* MaxRegRequests of them: events are created and deleted by users 1 and 2,
\* and every user registers.
RegNext ==
    \/ \E p \in Procs, u \in {1, 2} :
          served < MaxRegRequests /\ CreateEvent(p, u, RegPayload)
    \/ \E p \in Procs, u \in {1, 2}, k \in Ids :
          served < MaxRegRequests /\ DeleteGetObject(p, u, k)
    \/ \E p \in Procs, u \in {1, 2}, k \in Ids :
          served < MaxRegRequests /\ RegisterGetEvent(p, u, k)
    \/ \E p \in Procs : PerformDestroy(p)
    \/ \E p \in Procs : RegisterExists(p)
    \/ \E p \in Procs : RegisterCreate(p)
    \/ \E p \in Procs : RegisterSendMail(p)

RegSpec == Init /\ [][RegNext]_vars

\* User 1 creates events, every user registers for them and everybody asks
\* for their registrations, one request after the other, while the clock runs.
RosterNext ==
    \/ served < MaxRosterRequests /\ CreateEvent(1, 1, RegPayload)
    \/ \E u \in Users, k \in Ids :
          served < MaxRosterRequests /\ RegisterGetEvent(1, u, k)
    \/ \E u \in Callers, k \in 1..(MaxEvents + 1) :
          served < MaxRosterRequests /\ RegisteredUsers(1, u, k)
    \/ RegisterExists(1)
    \/ RegisterCreate(1)
    \/ RegisterSendMail(1)
    \/ Tick

RosterSpec == Init /\ [][RosterNext]_vars

\* The life of a registration: user 1 creates events, users 1 and 2 update
\* and delete them, every user registers, the requests served concurrently,
\* MaxLifeRequests of them.
LifePayload == Payload(<<"b">>, DateTime(2, 1), <<"B">>, 2, TRUE)

LifeNext ==
    \/ \E p \in Procs :
          served < MaxLifeRequests /\ CreateEvent(p, 1, RegPayload)
    \/ \E p \in Procs, u \in {1, 2}, k \in Ids :
          served < MaxLifeRequests /\ UpdateGetObject(p, u, k, LifePayload)
    \/ \E p \in Procs, u \in {1, 2}, k \in Ids :
          served < MaxLifeRequests /\ DeleteGetObject(p, u, k)
    \/ \E p \in Procs, u \in Users, k \in Ids :
          served < MaxLifeRequests /\ RegisterGetEvent(p, u, k)
    \/ \E p \in Procs : UpdateCheck(p)
    \/ \E p \in Procs : UpdateSave(p)
    \/ \E p \in Procs : PerformDestroy(p)
    \/ \E p \in Procs : RegisterExists(p)
    \/ \E p \in Procs : RegisterCreate(p)
    \/ \E p \in Procs : RegisterSendMail(p)

LifeSpec == Init /\ [][LifeNext]_vars

\* Listing: events of every shape are created, then listed under every
\* combination of filters.
ListPayloads ==
    {Payload(t, DateTime(day, tick), l, 0, TRUE) :
        t \in {<<"A", "b">>, <<"b">>}, day \in 1..NumDays,
        tick \in 0..(TicksPerDay - 1), l \in {<<"a", "B">>, <<"a">>}}

Queries ==
    {Query(s, df, dt, l, o) :
        s \in {<<>>, <<"a">>}, df \in {0, 2}, dt \in {0, 2},
        l \in {<<>>, <<"b">>}, o \in {<<>>, Username(2)}}

ListNext ==
    \/ \E u \in {1, 2}, d \in ListPayloads :
          served < MaxEvents /\ CreateEvent(1, u, d)
    \/ \E q \in Queries :
          served <= MaxEvents /\ ListEvents(1, Anon, q)

ListSpec == Init /\ [][ListNext]_vars

\* =================================================================== claims
Done(p, o) == req[p].pc = "done" /\ req[p].op = o

AlreadyMsg == "You are already registered for this event."
OwnMsg == "You cannot register for your own event."

\* A register request that found its event, by a user who does not organize it.
ValidRegister(p) ==
    /\ Done(p, "register")
    /\ req[p].caller # Anon
    /\ req[p].inst # <<>>
    /\ req[p].inst[1].organizer # req[p].caller

Outcome(p) == <<req[p].status, req[p].detail>>

\* C1 (as claimed): two register requests for the same event and user, the
\* user not the organizer and not registered before either arrived, end one
\* with 201 and the other with 400 "already registered", however their steps
\* interleave.  (Stated for runs in which the mail is delivered, so that what
\* is refuted is the race and not the mail failure of C7.)
C1_ExactlyOneSucceeds ==
    \A p, q \in Procs :
        ( /\ p # q
          /\ ValidRegister(p) /\ ValidRegister(q)
          /\ req[p].pk = req[q].pk /\ req[p].caller = req[q].caller
          /\ ( \/ ~Registered(req[p].before, req[p].pk, req[p].caller)
               \/ ~Registered(req[q].before, req[q].pk, req[q].caller) )
          /\ Exists(req[p].pk)
          /\ ~req[p].sendFailed /\ ~req[q].sendFailed )
        => {Outcome(p), Outcome(q)} =
              {<<201, "Registration successful.">>, <<400, AlreadyMsg>>}

\* C2: the table never holds two registrations of one (event, user) pair.
C2_UniquePair ==
    \A i, j \in 1..Len(regs) :
        (regs[i].event = regs[j].event /\ regs[i].user = regs[j].user) => i = j

\* C2 witness: a second INSERT of a pair was attempted and refused.
C2_Witness ==
    \E p \in Procs :
        /\ Done(p, "register")
        /\ req[p].status = 500 /\ req[p].detail = "IntegrityError"
        /\ Registered(regs, req[p].pk, req[p].caller)

\* C3 (as claimed): served one after the other, a register request of a user
\* who does not organize the event returns 201 and adds exactly one
\* registration when the user was not registered, and returns 400 and leaves
\* the registrations as they were when the user was.
C3_FirstThenDuplicate ==
    \A p \in Procs :
        ValidRegister(p) =>
            IF ~Registered(req[p].before, req[p].pk, req[p].caller)
            THEN /\ req[p].status = 201
                 /\ Len(regs) = Len(req[p].before) + 1
            ELSE /\ req[p].status = 400
                 /\ regs = req[p].before

\* C4: a register request by the organizer of the event it names is answered
\* 400 without creating a registration, and no registration's user is the
\* organizer of its event.
C4_OrganizerNeverRegistered ==
    /\ \A p \in Procs :
          ( /\ req[p].op = "register"
            /\ req[p].inst # <<>>
            /\ req[p].inst[1].organizer = req[p].caller )
          => /\ req[p].pc = "done"
             /\ Outcome(p) = <<400, OwnMsg>>
             /\ ~Registered(regs, req[p].pk, req[p].caller)
    /\ \A i \in 1..Len(regs) :
          Exists(regs[i].event) => events[regs[i].event].organizer # regs[i].user

\* C4 witness: the organizer asked to register for an event that has another
\* user registered, and was refused.
C4_Witness ==
    \E p \in Procs :
        /\ Done(p, "register")
        /\ req[p].inst # <<>>
        /\ req[p].inst[1].organizer = req[p].caller
        /\ req[p].status = 400
        /\ \E i \in 1..Len(regs) : regs[i].event = req[p].pk

\* Worker p takes a request in this step.
Arrives(p) == Free(p) /\ req'[p] # req[p]

C5_Step ==
    /\ \A p \in Procs :
          Arrives(p) /\ Exists(req'[p].pk) =>
            /\ req'[p].op = "retrieve" =>
                  /\ req'[p].status = 200
                  /\ req'[p].body = <<EventData(req'[p].pk, events[req'[p].pk])>>
            /\ ( /\ req'[p].op \in {"update", "delete"}
                 /\ req'[p].caller # Anon
                 /\ events[req'[p].pk].organizer # req'[p].caller )
               => /\ req'[p].pc = "done"
                  /\ req'[p].status = 403
                  /\ events' = events
                  /\ regs' = regs
    /\ \A e \in DOMAIN events :
          (e \notin DOMAIN events' \/ events'[e] # events[e]) =>
             \E p \in Procs :
                /\ req[p].op \in {"update", "delete"}
                /\ req[p].pk = e
                /\ req[p].caller = events[e].organizer
                /\ req'[p].pc = "done"
                /\ req'[p].status \in {200, 204}

\* C5: an event is changed or removed only by a step of an update or delete
\* request of its organizer; the update or delete of another authenticated
\* user is answered 403 at once and changes neither events nor registrations;
\* a GET of an existing event is answered 200 with the event, whoever asks.
C5_OrganizerOnly == [][C5_Step]_vars

\* C5 witness: an event stands as its organizer last wrote it while another
\* user's delete was answered 403 and an anonymous GET 200.
C5_Witness ==
    \E p, q \in Procs :
        /\ Done(p, "delete") /\ req[p].status = 403 /\ req[p].caller # Anon
        /\ Done(q, "retrieve") /\ req[q].status = 200 /\ req[q].caller = Anon
        /\ req[p].pk = req[q].pk
        /\ Exists(req[p].pk)
        /\ events[req[p].pk].title = <<"b">>

C6_Step ==
    \A p \in Procs :
        (req[p].pc = "del_destroy" /\ req'[p].pc = "done" /\ req'[p].status = 204)
        => /\ req[p].pk \notin DOMAIN events'
           /\ \A i \in 1..Len(regs') : regs'[i].event # req[p].pk
           /\ regs' = SelectSeq(regs, LAMBDA r : r.event # req[p].pk)

\* C6: a successful delete removes the event's registrations and leaves those
\* of every other event, in their order; and every registration names an
\* event that exists, deletes and registers interleaving as they may.
C6_Cascade ==
    /\ [](\A i \in 1..Len(regs) : Exists(regs[i].event))
    /\ [][C6_Step]_vars

\* C6 witness: an event that a user had registered for was deleted, and the
\* registration of another event is still there.
C6_Witness ==
    \E p, q \in Procs :
        /\ Done(p, "delete") /\ req[p].status = 204
        /\ Done(q, "register") /\ req[q].status = 201
        /\ req[q].pk = req[p].pk
        /\ ~Exists(req[p].pk)
        /\ Len(regs) >= 1
        /\ ~Registered(regs, req[q].pk, req[q].caller)

\* C7 (as claimed): when the mail of a register request fails, the request
\* still answers 201, the registration stays and the mail is sent once.
C7_MailFailureSwallowed ==
    \A p \in Procs :
        (Done(p, "register") /\ req[p].sendFailed) =>
            /\ req[p].status = 201
            /\ Registered(regs, req[p].pk, req[p].caller)
            /\ req[p].sends = 1

\* The rows of event k, as the claim describes the answer of its organizer.
RosterRows(k) == {i \in 1..Len(regs) : regs[i].event = k}

RosterExact(p) ==
    LET b == req[p].body
        k == req[p].pk IN
    /\ Len(b) = Cardinality(RosterRows(k))
    /\ {<<b[i].user, b[i].registered_at>> : i \in 1..Len(b)} =
          {<<Username(regs[i].user), regs[i].registered_at>> : i \in RosterRows(k)}
    /\ \A i \in 1..Len(b) : b[i].event = events[k].title

RosterSorted(p) ==
    LET b == req[p].body IN
    \A i, j \in 1..Len(b) : i < j => b[i].registered_at <= b[j].registered_at

RosterAnswer(p) ==
    IF ~Exists(req[p].pk) THEN req[p].status = 404
    ELSE IF events[req[p].pk].organizer # req[p].caller THEN req[p].status = 403
    ELSE /\ req[p].status = 200
         /\ RosterExact(p)
         /\ RosterSorted(p)

C9_OrganizerIsCreator ==
    \A e \in DOMAIN events : events[e].organizer = creator[e]

\* C9 witness: an event created, and then updated, by requests that both
\* carried another user as organizer.
C9_Witness ==
    \E p, q \in Procs :
        /\ Done(p, "create") /\ req[p].status = 201
        /\ req[p].data[1].organizer \notin {0, req[p].caller}
        /\ Done(q, "update") /\ req[q].status = 200
        /\ req[q].data[1].organizer \notin {0, req[q].caller}
        /\ req[q].pk = req[p].pk
        /\ Exists(req[p].pk)

\* The filters as the claim reads them: date_from and date_to bound the day
\* of the event, both days included.
ClaimedMatch(ev, q) ==
    /\ q.date_from = 0 \/ DayOf(ev.date) >= q.date_from
    /\ q.date_to = 0 \/ DayOf(ev.date) <= q.date_to
    /\ q.location_contains = <<>> \/ IContains(ev.location, q.location_contains)
    /\ q.organizer = <<>> \/ Username(ev.organizer) = q.organizer
    /\ q.search = <<>> \/ IContains(ev.title, q.search)

\* C10 (as claimed): list-events returns exactly the events that satisfy
\* every filter given, an event of the date_from day or of the date_to day
\* included at whatever time of the day it takes place.
C10_ListMatchesFilters ==
    \A p \in Procs :
        Done(p, "list") =>
            {req[p].body[i].id : i \in 1..Len(req[p].body)} =
                {k \in DOMAIN events : ClaimedMatch(events[k], req[p].data[1])}

\* A registration of the table is still in it, unchanged in every field,
\* unless this step is the successful delete of its event.
C11_Step ==
    \A i \in 1..Len(regs) :
        \/ \E j \in 1..Len(regs') : regs'[j] = regs[i]
        \/ \E p \in Procs :
              /\ req[p].op = "delete" /\ req[p].pc = "del_destroy"
              /\ req[p].pk = regs[i].event
              /\ req'[p].pc = "done" /\ req'[p].status = 204
              /\ regs[i].event \notin DOMAIN events'

\* C11: a registration stays in the table with its event, user and
\* registered_at until a delete of its event succeeds; no other step of any
\* request removes or alters it, updates of the event, register requests
\* and refused requests included.
C11_RegistrationPersists == [][C11_Step]_vars

\* C11 witness: a registration is in the table after its event was updated,
\* another user registered for the event, and a delete of the event by a user
\* who does not organize it was refused.
C11_Witness ==
    \E p, q \in Procs :
        /\ Done(p, "delete") /\ req[p].status = 403
        /\ Done(q, "register") /\ req[q].status = 201 /\ req[q].pk = req[p].pk
        /\ Exists(req[p].pk)
        /\ events[req[p].pk].title = <<"b">>
        /\ \E i, j \in 1..Len(regs) :
              /\ i < j
              /\ regs[i].event = req[p].pk /\ regs[j].event = req[p].pk
              /\ regs[j].user = req[q].caller

\* The requests that write: create, update, delete an event, register.
Mutating == {"create", "update", "delete", "register"}

\* A mutating request without credentials is answered in the step it
\* arrives in: turned away for want of credentials, or, an update or delete
\* of an event that does not exist, with 404; the step writes no table and
\* sends no mail.
C12_Step ==
    \A p \in Procs :
        (Arrives(p) /\ req'[p].op \in Mutating /\ req'[p].caller = Anon) =>
            /\ req'[p].pc = "done"
            /\ IF req'[p].op \in {"update", "delete"} /\ ~Exists(req'[p].pk)
               THEN req'[p].status = 404
               ELSE req'[p].status \in UnauthStatus
            /\ events' = events
            /\ regs' = regs
            /\ nextId' = nextId
            /\ req'[p].sends = 0

\* Such a request takes no further step.
C12_Answered ==
    \A p \in Procs :
        (req[p].op \in Mutating /\ req[p].caller = Anon) =>
            /\ req[p].pc = "done"
            /\ req[p].status \in UnauthStatus \cup {404}
            /\ req[p].sends = 0 /\ ~req[p].sendFailed

\* C12: a create, update, delete or register request of a caller who is not
\* authenticated is rejected, leaves the events and the registrations as
\* they were, and sends no notification.
C12_UnauthenticatedRejected == []C12_Answered /\ [][C12_Step]_vars

\* C12 witness: an event with a registration, whose delete by a caller
\* without credentials was rejected; event and registration are still there.
C12_Witness ==
    \E p, q \in Procs :
        /\ Done(p, "delete") /\ req[p].caller = Anon
        /\ req[p].status \in UnauthStatus
        /\ Done(q, "register") /\ req[q].status = 201 /\ req[q].pk = req[p].pk
        /\ Exists(req[p].pk)
        /\ Registered(regs, req[q].pk, req[q].caller)

\* The two PermissionDenied messages of perform_update and perform_destroy.
HandlerDenied ==
    {"You are not allowed to update this event.",
     "You are not allowed to delete this event."}

\* An update or delete request that was denied permission.
Rejected(p) ==
    /\ req[p].pc = "done"
    /\ req[p].op \in {"update", "delete"}
    /\ req[p].status \in UnauthStatus

\* C13: when perform_update or perform_destroy evaluates its own organizer
\* check, the caller is the organizer of the instance it holds and of the row
\* in the table, so no request is ever answered by the handler's
\* PermissionDenied; an update and a delete that are denied permission are
\* denied alike: 403 with the object permission's message for a user,
\* the credentials failure for a caller without credentials.
C13_HandlerCheckNeverFails ==
    /\ \A p \in Procs :
          req[p].pc \in {"upd_check", "upd_save", "del_destroy"} =>
             /\ req[p].caller # Anon
             /\ req[p].inst[1].organizer = req[p].caller
             /\ Exists(req[p].pk) => events[req[p].pk].organizer = req[p].caller
    /\ \A p \in Procs : req[p].detail \notin HandlerDenied
    /\ \A p \in Procs :
          Rejected(p) =>
             IF req[p].caller = Anon
             THEN req[p].detail = "not authenticated"
             ELSE Outcome(p) =
                    <<403, "You do not have permission to perform this action.">>
    /\ \A p, q \in Procs :
          (Rejected(p) /\ Rejected(q) /\ req[p].caller = req[q].caller) =>
             req[p].detail = req[q].detail

\* C13 witness: the organizer's update has passed the handler's check while
\* another user's delete of the same event was denied.
C13_Witness ==
    \E p, q \in Procs :
        /\ req[p].op = "update" /\ req[p].pc = "upd_save"
        /\ Done(q, "delete") /\ req[q].caller # Anon /\ req[q].status = 403
        /\ req[q].pk = req[p].pk
        /\ Exists(req[p].pk)

====
